---- MODULE Spec2Model ----
(***************************************************************************)
(* Model of the SSIPMT chatbot relay (src/agent.py): module start-up that  *)
(* reads APPS_SCRIPT_URL and GOOGLE_API_KEY, the data fetcher              *)
(* fetch_college_data, the POST /chat handler and the two probes on "/".   *)
(* The LLM provider, the data source and the TOON serializer are external: *)
(* their answers are inputs drawn from small sets.                         *)
(***************************************************************************)
EXTENDS Integers, Sequences, FiniteSets, TLC

\* Number of requests the server handles at the same time.
NumRequests == 2

Requests == 1..NumRequests

\* Python's None.
None == "None"

(***************************************************************************)
(* Environment values.                                                     *)
(***************************************************************************)
EnvUrlValues == {None, "", "https://script.example/exec"}
EnvKeyValues == {None, "", " key\n"}

\* Python truthiness of an Optional[str]: None and "" are falsy.
Falsy(s) == s = None \/ s = ""

\* The handle genai.GenerativeModel('gemini-2.0-flash-lite') returns.
GenerativeModel == "gemini-2.0-flash-lite"

(***************************************************************************)
(* JSON documents of the data source, and what an HTTP GET can produce.    *)
(***************************************************************************)
JsonObject(members) == [kind |-> "object", members |-> members]
JsonArray(items) == [kind |-> "array", items |-> items]
NotJson == [kind |-> "html"]

HostelDoc == JsonObject(<< <<"hostel_fee", "50000">> >>)
BranchDoc == JsonArray(<<"CSE", "IT">>)
Docs == {HostelDoc, BranchDoc}

\* A document has key k when it is a mapping with a member named k.
HasKey(d, k) ==
    /\ d.kind = "object"
    /\ \E i \in 1..Len(d.members) : d.members[i][1] = k

\* Final HTTP statuses of the data source (redirects with a Location header
\* are followed inside requests.get and never seen by the caller).
Statuses == {200, 300, 404}
Bodies == {NotJson} \cup Docs

\* One answer of an external collaborator, in one shape for all of them.
NoAnswer == [error |-> None, status |-> 0, body |-> NotJson, text |-> None]
NetworkError == [NoAnswer EXCEPT !.error = "ConnectionError: data source unreachable"]
HttpAnswer(s, b) == [NoAnswer EXCEPT !.status = s, !.body = b]
GetOutcomes == {NetworkError} \cup {HttpAnswer(s, b) : s \in Statuses, b \in Bodies}

\* Answers of the provider library.
Raised(detail) == [NoAnswer EXCEPT !.error = detail]
Text(t) == [NoAnswer EXCEPT !.text = t]
StartChatOutcomes == {NoAnswer, Raised("TypeError: bad history")}
SendOutcomes == {Raised("PermissionDenied: API key not valid"),
                 Raised("ValueError: response.text blocked by safety"),
                 Text("The hostel fee is 50000.")}

\* One entry of a request's log of external calls.
Call(name, arg, answer) == [call |-> name, arg |-> arg, answer |-> answer]

(***************************************************************************)
(* Start-up configuration, src/agent.py lines 35-58.                       *)
(***************************************************************************)
\* Each block yields the global it binds and the exception that leaves it.
ConfigureUrl(envUrl) ==
    [value |-> IF Falsy(envUrl) THEN None ELSE envUrl, raised |-> None]

\* Variant: the block catches nothing, so the ValueError for a missing key
\* leaves the module body.
ConfigureModel_Uncaught(envKey, configureRaises) ==
    IF Falsy(envKey)
    THEN [value |-> None, raised |-> "ValueError: GOOGLE_API_KEY environment variable not set."]
    ELSE [value |-> IF configureRaises THEN None ELSE GenerativeModel, raised |-> None]

ConfigureModel(envKey, configureRaises) ==
    [value |-> IF Falsy(envKey) \/ configureRaises THEN None ELSE GenerativeModel,
     raised |-> None]

(***************************************************************************)
(* fetch_college_data, src/agent.py lines 61-73.                           *)
(***************************************************************************)
ErrorMap(msg) == JsonObject(<< <<"error", msg>> >>)
ErrNotConfigured == ErrorMap("Could not fetch live data. APPS_SCRIPT_URL not configured.")
ErrFetch == ErrorMap("Could not fetch live data.")

\* response.raise_for_status(): HTTPError for 4xx and 5xx only.
RaiseForStatus(status) == status >= 400 /\ status < 600

\* response.json(): requests.exceptions.JSONDecodeError, a RequestException,
\* when the body is not JSON.
JsonRaises(body) == body.kind = "html"

\* Variant: no test of the URL before the GET.
fetch_college_data_NoGuard(url, get) ==
    LET io == << Call("GET", url, get) >>
    IN  IF get.error # None \/ RaiseForStatus(get.status) \/ JsonRaises(get.body)
        THEN [value |-> ErrFetch, raised |-> None, io |-> io]
        ELSE [value |-> get.body, raised |-> None, io |-> io]

\* Variant: the decode error of response.json() is not caught.
fetch_college_data_JsonUncaught(url, get) ==
    IF Falsy(url)
    THEN [value |-> ErrNotConfigured, raised |-> None, io |-> <<>>]
    ELSE LET io == << Call("GET", url, get) >>
         IN  IF get.error # None \/ RaiseForStatus(get.status)
             THEN [value |-> ErrFetch, raised |-> None, io |-> io]
             ELSE IF JsonRaises(get.body)
             THEN [value |-> NoAnswer.body, raised |-> "JSONDecodeError", io |-> io]
             ELSE [value |-> get.body, raised |-> None, io |-> io]

\* Variant: a failed GET is tried a second time.
fetch_college_data_Retry(url, get) ==
    IF Falsy(url)
    THEN [value |-> ErrNotConfigured, raised |-> None, io |-> <<>>]
    ELSE LET once == << Call("GET", url, get) >>
         IN  IF get.error # None \/ RaiseForStatus(get.status) \/ JsonRaises(get.body)
             THEN [value |-> ErrFetch, raised |-> None, io |-> once \o once]
             ELSE [value |-> get.body, raised |-> None, io |-> once]

\* The value the function returns and the calls it made.  get is the answer
\* requests.get would give; it is consulted only when the GET is issued.
fetch_college_data(url, get) ==
    IF Falsy(url)
    THEN [value |-> ErrNotConfigured, raised |-> None, io |-> <<>>]
    ELSE LET io == << Call("GET", url, get) >>
         IN  IF get.error # None \/ RaiseForStatus(get.status) \/ JsonRaises(get.body)
             THEN [value |-> ErrFetch, raised |-> None, io |-> io]
             ELSE [value |-> get.body, raised |-> None, io |-> io]

(***************************************************************************)
(* toons.dumps, src/agent.py line 90: the TOON text of a document.  An     *)
(* object is one "key: value" line per member, a root array of primitives  *)
(* is "[N]: a,b"; a string that would read back as a number, a boolean or  *)
(* null, or that is empty, is written in double quotes.                    *)
(***************************************************************************)
QuotedInToon == {"", "true", "false", "null", "50000"}

EncodeString(s) == IF s \in QuotedInToon THEN "\"" \o s \o "\"" ELSE s

RECURSIVE ObjectLines(_)
ObjectLines(members) ==
    IF members = <<>> THEN ""
    ELSE LET line == members[1][1] \o ": " \o EncodeString(members[1][2])
         IN  IF Len(members) = 1 THEN line
             ELSE line \o "\n" \o ObjectLines(Tail(members))

RECURSIVE ArrayItems(_)
ArrayItems(items) ==
    IF items = <<>> THEN ""
    ELSE IF Len(items) = 1 THEN EncodeString(items[1])
    ELSE EncodeString(items[1]) \o "," \o ArrayItems(Tail(items))

toons_dumps(d) ==
    IF d.kind = "object" THEN ObjectLines(d.members)
    ELSE "[" \o ToString(Len(d.items)) \o "]: " \o ArrayItems(d.items)

\* Whether toons.dumps may raise on a value.  The serializer is an external
\* library: on a document of the data source its outcome is an input; the
\* handler's own one-string error mappings always serialize.
DumpsOutcomes(d) == IF d \in Docs THEN {FALSE, TRUE} ELSE {FALSE}
DumpsError == "ValueError: toons.dumps cannot serialize value"

(***************************************************************************)
(* The prompt and the seeded conversation, src/agent.py lines 93-113.      *)
(***************************************************************************)
PromptHead == "\n    You are \"Sankalp\", a friendly, multilingual, and helpful AI assistant for SSIPMT.\n\n    Your primary goal is to answer user questions based *only* on the information provided below.\n    - Do not make up information or use external knowledge.\n    - If the answer is not found in the provided data, politely say that you don't have that information in the user's language.\n    - Detect the user's language and respond in the same language.\n    - Be robust to spelling and grammatical errors in the user's query. Try to understand the intent.\n    - Format your answers clearly, using markdown for bolding and lists when appropriate.\n\n    Here is the college data in TOON (Token-Oriented Object Notation) format:\n    ---\n    "
PromptTail == "\n    ---\n    "

SYSTEM_PROMPT(college_data_string) == PromptHead \o college_data_string \o PromptTail

Greeting == "Hello! I'm Sankalp, your AI assistant for SSIPMT. How can I help you today?"

Turn(role, part) == [role |-> role, parts |-> <<part>>]
SeededHistory(prompt) == << Turn("user", prompt), Turn("model", Greeting) >>

\* Variant: an error mapping is left out of the prompt.
BuildPrompt_DropError(data, dumpsRaises) ==
    IF dumpsRaises
    THEN [prompt |-> None, raised |-> DumpsError,
          io |-> << Call("toons.dumps", data.kind, Raised(DumpsError)) >>]
    ELSE IF HasKey(data, "error")
    THEN [prompt |-> SYSTEM_PROMPT(""), raised |-> None, io |-> <<>>]
    ELSE [prompt |-> SYSTEM_PROMPT(toons_dumps(data)), raised |-> None,
          io |-> << Call("toons.dumps", data.kind, Text(toons_dumps(data))) >>]

\* Lines 90-107: college_data_string and SYSTEM_PROMPT, or the exception of
\* toons.dumps, which no try block encloses.
BuildPrompt(data, dumpsRaises) ==
    IF dumpsRaises
    THEN [prompt |-> None, raised |-> DumpsError,
          io |-> << Call("toons.dumps", data.kind, Raised(DumpsError)) >>]
    ELSE [prompt |-> SYSTEM_PROMPT(toons_dumps(data)), raised |-> None,
          io |-> << Call("toons.dumps", data.kind, Text(toons_dumps(data))) >>]

(***************************************************************************)
(* HTTP responses.                                                         *)
(***************************************************************************)
JsonResponse(status, pairs) ==
    [status |-> status, media |-> "application/json", body |-> pairs, exception |-> None]
Reply(s) == JsonResponse(200, << <<"reply", s>> >>)
\* Response(status_code=200): no body.
EmptyResponse == [status |-> 200, media |-> None, body |-> <<>>, exception |-> None]
\* What the framework answers when a body does not validate as ChatMessage.
UnprocessableEntity == JsonResponse(422, << <<"detail", "Field required">> >>)
\* What the framework answers when an exception leaves the handler.
InternalServerError(exc) ==
    [status |-> 500, media |-> "text/plain",
     body |-> << <<"", "Internal Server Error">> >>, exception |-> exc]
NoResponse == [status |-> 0, media |-> None, body |-> <<>>, exception |-> None]

NotConfiguredReply == "Error: The chatbot is not configured correctly. Please check server logs."
ProvideMessageReply == "Please provide a message."
FriendlyErrorReply == "Sorry, something went wrong on my end. Please try again."

(***************************************************************************)
(* Request bodies of POST /chat.                                           *)
(***************************************************************************)
\* A JSON body without the "message" field.
Missing == "<no message field>"
Messages == {"", "What are the hostel fees?"}
ChatBodies == {Missing} \cup Messages

\* ChatMessage(BaseModel) with message: str, lines 32-33.
ChatMessageValid(b) == b # Missing

\* Variant: the two early returns in the other order.
EarlyReply_EmptyFirst(mdl, msg) ==
    IF msg = "" THEN ProvideMessageReply
    ELSE IF mdl = None THEN NotConfiguredReply
    ELSE None

\* Variant: no early return for an empty message.
EarlyReply_NoEmptyCheck(mdl, msg) ==
    IF mdl = None THEN NotConfiguredReply ELSE None

\* Lines 78-83: the reply of an early return, or None to carry on.
EarlyReply(mdl, msg) ==
    IF mdl = None THEN NotConfiguredReply
    ELSE IF msg = "" THEN ProvideMessageReply
    ELSE None

\* Variant: the except clause puts the exception text in the reply.
Generate_LeakDetail(msg, sys_prompt, start, send) ==
    LET opened == Call("start_chat", sys_prompt, start)
        sent == Call("send_message", msg, send)
    IN  IF start.error # None
        THEN [response |-> Reply(start.error), io |-> <<opened>>, session |-> <<>>]
        ELSE IF send.error # None
        THEN [response |-> Reply(send.error), io |-> <<opened, sent>>,
              session |-> SeededHistory(sys_prompt)]
        ELSE [response |-> Reply(send.text), io |-> <<opened, sent>>,
              session |-> SeededHistory(sys_prompt)]

\* Lines 109-121: the conversation with the provider.  start is the outcome
\* of model.start_chat, send that of send_message followed by response.text.
Generate(msg, sys_prompt, start, send) ==
    LET opened == Call("start_chat", sys_prompt, start)
        sent == Call("send_message", msg, send)
    IN  IF start.error # None
        THEN [response |-> Reply(FriendlyErrorReply), io |-> <<opened>>,
              session |-> <<>>]
        ELSE IF send.error # None
        THEN [response |-> Reply(FriendlyErrorReply), io |-> <<opened, sent>>,
              session |-> SeededHistory(sys_prompt)]
        ELSE [response |-> Reply(send.text), io |-> <<opened, sent>>,
              session |-> SeededHistory(sys_prompt)]

(***************************************************************************)
(* State.                                                                  *)
(***************************************************************************)
VARIABLES
    process,          \* "loading" while the module body runs, then "running"
    env,              \* the process environment after load_dotenv()
    APPS_SCRIPT_URL,  \* module global, lines 37-43
    model,            \* module global, lines 46-58
    pc,               \* per request: where its handler stands
    route,            \* per request: the route it came in on
    chat_message,     \* per request: the body of POST /chat
    college_data,     \* per request: local of chat, line 86
    prompt,           \* per request: local SYSTEM_PROMPT of chat
    chat_session,     \* per request: history of the opened conversation
    response,         \* per request: what the client receives
    io                \* per request: the external calls made, in order

config == <<process, env, APPS_SCRIPT_URL, model>>
locals == <<pc, route, chat_message, college_data, prompt, chat_session, response, io>>
vars == <<process, env, APPS_SCRIPT_URL, model, pc, route, chat_message,
          college_data, prompt, chat_session, response, io>>

NoData == [kind |-> "unset"]

Init ==
    /\ process = "loading"
    /\ env \in [APPS_SCRIPT_URL : EnvUrlValues, GOOGLE_API_KEY : EnvKeyValues]
    /\ APPS_SCRIPT_URL = None
    /\ model = None
    /\ pc = [r \in Requests |-> "idle"]
    /\ route = [r \in Requests |-> None]
    /\ chat_message = [r \in Requests |-> None]
    /\ college_data = [r \in Requests |-> NoData]
    /\ prompt = [r \in Requests |-> None]
    /\ chat_session = [r \in Requests |-> <<>>]
    /\ response = [r \in Requests |-> NoResponse]
    /\ io = [r \in Requests |-> <<>>]

\* Lines 35-58: the module body.  configureRaises is whether genai.configure
\* or the GenerativeModel constructor raises.
Startup(configureRaises) ==
    /\ process = "loading"
    /\ LET u == ConfigureUrl(env.APPS_SCRIPT_URL)
           m == ConfigureModel(env.GOOGLE_API_KEY, configureRaises)
       IN  IF u.raised # None \/ m.raised # None
           THEN /\ process' = "crashed"
                /\ UNCHANGED <<APPS_SCRIPT_URL, model>>
           ELSE /\ process' = "running"
                /\ APPS_SCRIPT_URL' = u.value
                /\ model' = m.value
    /\ UNCHANGED <<env, locals>>

\* The request ends with response resp after the calls calls.
Finish(r, resp, calls) ==
    /\ pc' = [pc EXCEPT ![r] = "done"]
    /\ response' = [response EXCEPT ![r] = resp]
    /\ io' = [io EXCEPT ![r] = io[r] \o calls]

\* Variant: the message is kept in one place shared by all requests.
user_message_Shared(r) == chat_message[1]

\* Line 81: the handler's local user_message.
user_message(r) == chat_message[r]

\* POST /chat arrives with body b: validation of the body, then lines 78-83.
PostChat(r, b) ==
    /\ process = "running"
    /\ pc[r] = "idle"
    /\ route' = [route EXCEPT ![r] = "POST /chat"]
    /\ chat_message' = [chat_message EXCEPT ![r] = b]
    /\ IF ~ChatMessageValid(b)
       THEN Finish(r, UnprocessableEntity, <<>>)
       ELSE IF EarlyReply(model, b) # None
       THEN Finish(r, Reply(EarlyReply(model, b)), <<>>)
       ELSE /\ pc' = [pc EXCEPT ![r] = "fetch"]
            /\ UNCHANGED <<response, io>>
    /\ UNCHANGED <<config, college_data, prompt, chat_session>>

\* Lines 86-107: fetch_college_data(), toons.dumps and the prompt.
FetchData(r, get, dumpsRaises) ==
    /\ pc[r] = "fetch"
    /\ LET f == fetch_college_data(APPS_SCRIPT_URL, get)
       IN  IF f.raised # None
           THEN /\ Finish(r, InternalServerError(f.raised), f.io)
                /\ UNCHANGED <<college_data, prompt>>
           ELSE /\ dumpsRaises \in DumpsOutcomes(f.value)
                /\ college_data' = [college_data EXCEPT ![r] = f.value]
                /\ LET p == BuildPrompt(f.value, dumpsRaises)
                   IN  IF p.raised # None
                       THEN /\ Finish(r, InternalServerError(p.raised), f.io \o p.io)
                            /\ UNCHANGED prompt
                       ELSE /\ prompt' = [prompt EXCEPT ![r] = p.prompt]
                            /\ pc' = [pc EXCEPT ![r] = "generate"]
                            /\ io' = [io EXCEPT ![r] = io[r] \o f.io \o p.io]
                            /\ UNCHANGED response
    /\ UNCHANGED <<config, route, chat_message, chat_session>>

\* Lines 109-121: the conversation with the provider.
CallProvider(r, start, send) ==
    /\ pc[r] = "generate"
    /\ LET g == Generate(user_message(r), prompt[r], start, send)
       IN  /\ Finish(r, g.response, g.io)
           /\ chat_session' = [chat_session EXCEPT ![r] = g.session]
    /\ UNCHANGED <<config, route, chat_message, college_data, prompt>>

\* GET /, lines 124-126.
ReadRoot(r) ==
    /\ process = "running"
    /\ pc[r] = "idle"
    /\ route' = [route EXCEPT ![r] = "GET /"]
    /\ Finish(r, JsonResponse(200, << <<"status", "Chatbot server is running">> >>), <<>>)
    /\ UNCHANGED <<config, chat_message, college_data, prompt, chat_session>>

\* HEAD /, lines 129-132.
StatusCheck(r) ==
    /\ process = "running"
    /\ pc[r] = "idle"
    /\ route' = [route EXCEPT ![r] = "HEAD /"]
    /\ Finish(r, EmptyResponse, <<>>)
    /\ UNCHANGED <<config, chat_message, college_data, prompt, chat_session>>

\* The response is delivered and the handler's locals are gone.
Complete(r) ==
    /\ pc[r] = "done"
    /\ pc' = [pc EXCEPT ![r] = "idle"]
    /\ route' = [route EXCEPT ![r] = None]
    /\ chat_message' = [chat_message EXCEPT ![r] = None]
    /\ college_data' = [college_data EXCEPT ![r] = NoData]
    /\ prompt' = [prompt EXCEPT ![r] = None]
    /\ chat_session' = [chat_session EXCEPT ![r] = <<>>]
    /\ response' = [response EXCEPT ![r] = NoResponse]
    /\ io' = [io EXCEPT ![r] = <<>>]
    /\ UNCHANGED config

Next ==
    \/ \E c \in BOOLEAN : Startup(c)
    \/ \E r \in Requests, b \in ChatBodies : PostChat(r, b)
    \/ \E r \in Requests, get \in GetOutcomes, d \in BOOLEAN : FetchData(r, get, d)
    \/ \E r \in Requests, start \in StartChatOutcomes, send \in SendOutcomes :
          CallProvider(r, start, send)
    \/ \E r \in Requests : ReadRoot(r)
    \/ \E r \in Requests : StatusCheck(r)
    \/ \E r \in Requests : Complete(r)

Spec == Init /\ [][Next]_vars

(***************************************************************************)
(* Vocabulary of the properties.                                           *)
(***************************************************************************)
IsChat(r) == route[r] = "POST /chat"
Done(r) == pc[r] = "done"

\* The positions of a request's log that hold a call with one of the names.
CallsTo(r, names) == {i \in DOMAIN io[r] : io[r][i].call \in names}
ProviderCalls == {"start_chat", "send_message"}
OutboundCalls == {"GET"} \cup ProviderCalls

\* The handler ran past both early returns of lines 78-83.
PastChecks(r) ==
    /\ IsChat(r)
    /\ pc[r] \in {"generate", "done"}
    /\ ChatMessageValid(chat_message[r])
    /\ EarlyReply(model, chat_message[r]) = None

\* A response {"reply": <string>} with status 200.
IsReply200(resp) ==
    /\ resp.status = 200
    /\ resp.exception = None
    /\ Len(resp.body) = 1
    /\ resp.body[1][1] = "reply"
    /\ resp.body[1][2] # None

(***************************************************************************)
(* C1.  Every POST /chat with a well-formed body ends in a 200 response    *)
(* {"reply": <string>}, whatever fails on the way: no exception leaves the *)
(* handler and no other status is produced.                                *)
(***************************************************************************)
C1_EveryFailureIs200 ==
    \A r \in Requests :
        Done(r) /\ IsChat(r) /\ ChatMessageValid(chat_message[r])
            => IsReply200(response[r])

(***************************************************************************)
(* C2.  With the credential absent the global model is None, and then      *)
(* every POST /chat with a message, the empty one included, gets the fixed *)
(* not-configured reply and makes neither the data-source GET nor a        *)
(* provider call.                                                          *)
(***************************************************************************)
C2_NotConfigured ==
    /\ process = "running" /\ Falsy(env.GOOGLE_API_KEY) => model = None
    /\ \A r \in Requests :
          IsChat(r) /\ ChatMessageValid(chat_message[r]) /\ model = None
              => /\ Done(r)
                 /\ response[r] = Reply(NotConfiguredReply)
                 /\ CallsTo(r, OutboundCalls) = {}

C2_Witness ==
    \E r \in Requests :
        /\ env.GOOGLE_API_KEY = None
        /\ Done(r) /\ IsChat(r) /\ chat_message[r] = ""
        /\ response[r] = Reply(NotConfiguredReply)

(***************************************************************************)
(* C3 as stated.  Every empty or missing message gets the fixed            *)
(* prompt-for-input reply, without any network call.                       *)
(***************************************************************************)
C3_Original ==
    \A r \in Requests :
        Done(r) /\ IsChat(r) /\ chat_message[r] \in {"", Missing}
            => /\ response[r] = Reply(ProvideMessageReply)
               /\ CallsTo(r, OutboundCalls) = {}

(***************************************************************************)
(* C3 as amended.  An empty message gets the prompt-for-input reply when   *)
(* the model is configured and the not-configured reply when it is not; a  *)
(* body without the message field is answered 422 before the handler runs; *)
(* in none of these cases is a network call made.                          *)
(***************************************************************************)
C3_EmptyMessage ==
    \A r \in Requests :
        IsChat(r) /\ chat_message[r] \in {"", Missing}
            => /\ Done(r)
               /\ CallsTo(r, OutboundCalls) = {}
               /\ chat_message[r] = "" /\ model # None
                     => response[r] = Reply(ProvideMessageReply)
               /\ chat_message[r] = "" /\ model = None
                     => response[r] = Reply(NotConfiguredReply)
               /\ chat_message[r] = Missing => response[r] = UnprocessableEntity

C3_Witness ==
    \E r \in Requests :
        /\ model # None
        /\ Done(r) /\ IsChat(r) /\ chat_message[r] = ""
        /\ response[r] = Reply(ProvideMessageReply)
        /\ io[r] = <<>>

(***************************************************************************)
(* C4.  With APPS_SCRIPT_URL unset or empty, fetch_college_data returns a  *)
(* mapping with the key "error", does not raise and issues no HTTP GET.    *)
(***************************************************************************)
C4_NoUrlNoFetch ==
    /\ \A u \in {None, ""}, get \in GetOutcomes :
          LET f == fetch_college_data(u, get)
          IN  HasKey(f.value, "error") /\ f.raised = None /\ f.io = <<>>
    /\ \A r \in Requests :
          Falsy(env.APPS_SCRIPT_URL) /\ PastChecks(r)
              => /\ HasKey(college_data[r], "error")
                 /\ CallsTo(r, {"GET"}) = {}
                 /\ response[r].status # 500

C4_Witness ==
    \E r \in Requests :
        /\ env.APPS_SCRIPT_URL = ""
        /\ pc[r] = "generate"
        /\ college_data[r] = ErrNotConfigured
        /\ CallsTo(r, {"GET"}) = {}

\* The answer a request got from its call named name (NoAnswer if it made
\* no such call).
AnswerOf(r, name) ==
    IF CallsTo(r, {name}) = {} THEN NoAnswer
    ELSE io[r][CHOOSE i \in CallsTo(r, {name}) : TRUE].answer

\* The data-source endpoint failed in one of the three ways of the claim.
FailedAs2xxOnly(a) ==
    \/ a.error # None
    \/ ~(a.status >= 200 /\ a.status < 300)
    \/ a.body.kind = "html"

FailedAsHttpError(a) ==
    \/ a.error # None
    \/ (a.status >= 400 /\ a.status < 600)
    \/ a.body.kind = "html"

(***************************************************************************)
(* C5 as stated.  With the URL configured, a network error, a non-2xx      *)
(* status or a 2xx body that is not JSON makes fetch_college_data return a *)
(* mapping with the key "error" instead of raising; a 2xx JSON body is     *)
(* returned as parsed, unchanged.                                          *)
(***************************************************************************)
C5_Original ==
    \A r \in Requests :
        CallsTo(r, {"GET"}) # {}
            => LET a == AnswerOf(r, "GET")
               IN  /\ college_data[r] # NoData
                   /\ FailedAs2xxOnly(a) => HasKey(college_data[r], "error")
                   /\ ~FailedAs2xxOnly(a) => college_data[r] = a.body

(***************************************************************************)
(* C5 as amended.  With the URL configured, a network error, a 4xx or 5xx  *)
(* status or a body that is not JSON makes fetch_college_data return a     *)
(* mapping with the key "error" instead of raising; a JSON body that comes *)
(* with any other status (2xx, or a 3xx left unfollowed) is returned as    *)
(* parsed, unchanged.                                                      *)
(***************************************************************************)
C5_FetchOutcome ==
    \A r \in Requests :
        CallsTo(r, {"GET"}) # {}
            => LET a == AnswerOf(r, "GET")
               IN  /\ college_data[r] # NoData
                   /\ io[r][1] = Call("GET", APPS_SCRIPT_URL, a)
                   /\ FailedAsHttpError(a) => HasKey(college_data[r], "error")
                   /\ ~FailedAsHttpError(a) => college_data[r] = a.body

C5_Witness ==
    \E r \in Requests :
        /\ AnswerOf(r, "GET") = HttpAnswer(200, NotJson)
        /\ college_data[r] = ErrFetch
        /\ pc[r] = "generate"

(***************************************************************************)
(* C6.  An exception raised while opening the conversation, sending the    *)
(* message or reading the reply text ends the request with status 200 and  *)
(* exactly the fixed friendly-error reply, which carries no detail of the  *)
(* exception.                                                              *)
(***************************************************************************)
C6_ProviderFailure ==
    \A r \in Requests :
        (\E i \in CallsTo(r, ProviderCalls) : io[r][i].answer.error # None)
            => /\ Done(r)
               /\ response[r] = Reply(FriendlyErrorReply)
               /\ response[r].status = 200
               /\ \A i \in CallsTo(r, ProviderCalls) :
                     response[r].body[1][2] # io[r][i].answer.error

C6_Witness ==
    \E r \in Requests :
        /\ Done(r)
        /\ AnswerOf(r, "send_message") = Raised("ValueError: response.text blocked by safety")
        /\ response[r] = Reply(FriendlyErrorReply)

(***************************************************************************)
(* C7.  Within one request there is at most one data-source GET and at     *)
(* most one send_message (and one start_chat), the GET comes before every  *)
(* provider call, and a failed call is the last of its kind: nothing is    *)
(* retried.                                                                *)
(***************************************************************************)
C7_NoRetryFixedOrder ==
    \A r \in Requests :
        /\ Cardinality(CallsTo(r, {"GET"})) <= 1
        /\ Cardinality(CallsTo(r, {"start_chat"})) <= 1
        /\ Cardinality(CallsTo(r, {"send_message"})) <= 1
        /\ \A i \in CallsTo(r, {"GET"}), j \in CallsTo(r, ProviderCalls) : i < j
        /\ \A i \in CallsTo(r, {"start_chat"}), j \in CallsTo(r, {"send_message"}) : i < j
        /\ \A i \in CallsTo(r, ProviderCalls) :
              io[r][i].answer.error # None => i = Len(io[r])

C7_Witness ==
    \E r \in Requests :
        /\ Done(r)
        /\ Len(io[r]) = 4
        /\ io[r][1].call = "GET" /\ io[r][1].answer = NetworkError
        /\ io[r][4].call = "send_message" /\ io[r][4].answer.error # None

(***************************************************************************)
(* C8.  Requests are independent under any interleaving.  After start-up   *)
(* no step writes the configuration; a step of one request leaves the      *)
(* locals of every other request alone; and the response of a request and  *)
(* the calls it made are the function ExpectedOutcome of the               *)
(* configuration, its own message and the answers it received itself.      *)
(***************************************************************************)
ExpectedOutcome(r) ==
    LET b == chat_message[r]
        f == fetch_college_data(APPS_SCRIPT_URL, AnswerOf(r, "GET"))
        p == BuildPrompt(f.value, AnswerOf(r, "toons.dumps").error # None)
        g == Generate(b, p.prompt, AnswerOf(r, "start_chat"), AnswerOf(r, "send_message"))
    IN  IF ~ChatMessageValid(b) THEN [response |-> UnprocessableEntity, io |-> <<>>]
        ELSE IF EarlyReply(model, b) # None
        THEN [response |-> Reply(EarlyReply(model, b)), io |-> <<>>]
        ELSE IF f.raised # None
        THEN [response |-> InternalServerError(f.raised), io |-> f.io]
        ELSE IF p.raised # None
        THEN [response |-> InternalServerError(p.raised), io |-> f.io \o p.io]
        ELSE [response |-> g.response, io |-> f.io \o p.io \o g.io]

OwnOutcome ==
    \A r \in Requests :
        Done(r) /\ IsChat(r)
            => /\ response[r] = ExpectedOutcome(r).response
               /\ io[r] = ExpectedOutcome(r).io

ConfigReadOnly ==
    process = "running" => UNCHANGED <<process, env, APPS_SCRIPT_URL, model>>

LocalsOf(r) ==
    <<pc[r], route[r], chat_message[r], college_data[r], prompt[r],
      chat_session[r], response[r], io[r]>>

NoInterference ==
    \A r, q \in Requests :
        r # q /\ pc'[r] # pc[r] => LocalsOf(q)' = LocalsOf(q)

C8_Independent == []OwnOutcome /\ [][ConfigReadOnly /\ NoInterference]_vars

C8_Witness ==
    \E r, q \in Requests :
        /\ r < q
        /\ Done(r) /\ Done(q) /\ IsChat(r) /\ IsChat(q)
        /\ response[r] = Reply(FriendlyErrorReply)
        /\ response[q] = Reply("The hostel fee is 50000.")
        /\ Len(io[q]) = 4
        /\ io[q][4].arg = chat_message[q]

(***************************************************************************)
(* C9.  In every configuration (each variable present, empty or absent)    *)
(* start-up completes, HEAD / can be served and answers 200 with an empty  *)
(* body, GET / answers 200, and neither probe makes a data-source GET or a *)
(* provider call.                                                          *)
(***************************************************************************)
C9_StartsAndAnswersProbes ==
    /\ process # "crashed"
    /\ process = "loading" => ENABLED (\E c \in BOOLEAN : Startup(c))
    /\ \A r \in Requests :
          /\ process = "running" /\ pc[r] = "idle"
                => ENABLED StatusCheck(r) /\ ENABLED ReadRoot(r)
          /\ Done(r) /\ route[r] = "HEAD /"
                => /\ response[r].status = 200
                   /\ response[r].body = <<>>
                   /\ io[r] = <<>>
          /\ Done(r) /\ route[r] = "GET /"
                => /\ response[r].status = 200
                   /\ io[r] = <<>>

C9_Witness ==
    \E r \in Requests :
        /\ env.GOOGLE_API_KEY = None /\ env.APPS_SCRIPT_URL = None
        /\ process = "running"
        /\ Done(r) /\ route[r] = "HEAD /"
        /\ response[r] = EmptyResponse

(***************************************************************************)
(* C10.  A failed fetch does not end the request.  With the model          *)
(* configured and a message given, when fetch_college_data returned an     *)
(* {"error": ...} mapping the handler serializes that mapping into the     *)
(* prompt, opens the two-turn seeded conversation and sends the user       *)
(* message; when the provider answers, the reply is the provider's text.   *)
(***************************************************************************)
C10_FetchFailureNonFatal ==
    \A r \in Requests :
        PastChecks(r) /\ college_data[r] \in {ErrNotConfigured, ErrFetch}
            => /\ prompt[r] = SYSTEM_PROMPT(toons_dumps(college_data[r]))
               /\ Done(r) =>
                     LET start == AnswerOf(r, "start_chat")
                         send == AnswerOf(r, "send_message")
                     IN  /\ CallsTo(r, {"start_chat"}) # {}
                         /\ start.error = None =>
                               /\ chat_session[r] = SeededHistory(prompt[r])
                               /\ Len(chat_session[r]) = 2
                               /\ \E i \in CallsTo(r, {"send_message"}) :
                                     io[r][i].arg = chat_message[r]
                         /\ start.error = None /\ send.error = None =>
                               /\ response[r] = Reply(send.text)
                               /\ send.text \notin {NotConfiguredReply, ProvideMessageReply,
                                                    FriendlyErrorReply}

C10_Witness ==
    \E r \in Requests :
        /\ Done(r) /\ IsChat(r)
        /\ college_data[r] = ErrFetch
        /\ prompt[r] = PromptHead \o "error: Could not fetch live data." \o PromptTail
        /\ response[r] = Reply("The hostel fee is 50000.")

====
